---- MODULE Spec2Model ----
(***************************************************************************)
(* Model of mt_train/src/main.rs: the feature hasher (emit_tokens,         *)
(* murmurhash2, classify_codepoint, extract_features), the dataset         *)
(* balancer (create_balanced_dataset) and the trainer (predict, softmax,   *)
(* train_step, train, evaluate) of LanguageDetectorTrainer.                *)
(*                                                                         *)
(* u32 values are pairs <<hi, lo>> of 16-bit halves, so that wrapping      *)
(* multiplication, shifts and xor keep their 32-bit width.  f32 values are *)
(* fixed-point integers in units of 1/Scale.                               *)
(***************************************************************************)
EXTENDS Integers, Sequences, FiniteSets, TLC

(* ------------------------------------------------------------------ *)
(* 32-bit unsigned arithmetic                                          *)
(* ------------------------------------------------------------------ *)

Half == 65536

U32(hi, lo) == <<hi, lo>>

U32Of(n) == <<n \div Half, n % Half>>

RECURSIVE Xor16(_, _)
Xor16(a, b) ==
    IF a = 0 THEN b
    ELSE IF b = 0 THEN a
    ELSE (((a % 2) + (b % 2)) % 2) + 2 * Xor16(a \div 2, b \div 2)

\* a ^ b on u32
XorU32(a, b) == <<Xor16(a[1], b[1]), Xor16(a[2], b[2])>>

RECURSIVE Pow2(_)
Pow2(n) == IF n = 0 THEN 1 ELSE 2 * Pow2(n - 1)

\* a >> n on u32, 0 < n < 32
ShrU32(a, n) ==
    IF n >= 16
    THEN <<0, a[1] \div Pow2(n - 16)>>
    ELSE <<a[1] \div Pow2(n),
           (a[1] % Pow2(n)) * Pow2(16 - n) + a[2] \div Pow2(n)>>

\* the full 32-bit product of two 16-bit values, as <<hi, lo>>
Mul16(x, y) ==
    LET p0 == x * (y % 256)
        p1 == x * (y \div 256)
        t  == (p1 % 256) * 256 + p0
    IN  <<(p1 \div 256 + t \div Half) % Half, t % Half>>

\* a.wrapping_mul(b) on u32
WrappingMul(a, b) ==
    LET ll == Mul16(a[2], b[2])
        hl == Mul16(a[1], b[2])
        lh == Mul16(a[2], b[1])
    IN  <<(ll[1] + hl[2] + lh[2]) % Half, ll[2]>>

\* a % d on u32, for a small divisor d >= 1
ModU32(a, d) == ((a[1] % d) * (Half % d) + a[2]) % d

(* ------------------------------------------------------------------ *)
(* Feature hashing                                                     *)
(* ------------------------------------------------------------------ *)

SEED == U32(49471, 25775)          \* 3_242_157_231

MurmurM == U32(23505, 59797)       \* 0x5bd1_e995

murmurhash2(k0, seed) ==
    LET k1 == WrappingMul(k0, MurmurM)
        k2 == XorU32(k1, ShrU32(k1, 24))
        k3 == WrappingMul(k2, MurmurM)
        h1 == WrappingMul(seed, MurmurM)
        h2 == XorU32(h1, k3)
        h3 == XorU32(h2, ShrU32(h2, 13))
        h4 == WrappingMul(h3, MurmurM)
    IN  XorU32(h4, ShrU32(h4, 15))

\* the sorted boundary table of classify_codepoint
BoundaryTable ==
    << 160, 161, 171, 172, 173, 174, 187, 192, 196, 199, 200, 201, 202, 205,
       214, 220, 223, 224, 225, 226, 227, 228, 231, 232, 233, 234, 235, 236,
       237, 238, 239, 242, 243, 244, 245, 246, 249, 250, 251, 252, 333, 339,
       12288, 12351, 12352, 12447, 12448, 12543, 19968, 40879, 65377, 65424 >>

\* mutant: a code point that matches no entry gets the index of the nearest
\* entry below it
classify_codepointBelow(chr) ==
    IF \E i \in DOMAIN BoundaryTable : BoundaryTable[i] = chr
    THEN (CHOOSE i \in DOMAIN BoundaryTable : BoundaryTable[i] = chr) - 1
    ELSE IF \E i \in DOMAIN BoundaryTable : BoundaryTable[i] < chr
         THEN Cardinality({i \in DOMAIN BoundaryTable : BoundaryTable[i] < chr}) - 1
         ELSE 0

\* slice::binary_search(..).unwrap_or_else(|pos| pos): the index of an entry
\* equal to chr, otherwise the insertion position of chr
classify_codepoint(chr) ==
    IF \E i \in DOMAIN BoundaryTable : BoundaryTable[i] = chr
    THEN (CHOOSE i \in DOMAIN BoundaryTable : BoundaryTable[i] = chr) - 1
    ELSE Cardinality({i \in DOMAIN BoundaryTable : BoundaryTable[i] < chr})

AsciiNGram(ngram) == [kind |-> "AsciiNGram", v |-> ngram]
Unicode(chr) == [kind |-> "Unicode", v |-> U32Of(chr)]
UnicodeClass(chr) == [kind |-> "UnicodeClass", v |-> U32Of(chr)]

to_hash(feature) ==
    CASE feature.kind = "AsciiNGram" -> murmurhash2(feature.v, SEED)
      [] feature.kind = "Unicode" ->
            murmurhash2(U32Of((feature.v[1] * Half + feature.v[2]) \div 128),
                        XorU32(SEED, U32(0, 2)))
      [] feature.kind = "UnicodeClass" ->
            murmurhash2(U32Of(classify_codepoint(feature.v[1] * Half + feature.v[2])),
                        XorU32(SEED, U32(0, 4)))

is_ascii(chr) == chr < 128

to_ascii_lowercase(chr) == IF chr >= 65 /\ chr <= 90 THEN chr + 32 ELSE chr

\* char::is_alphanumeric on an ASCII character
is_alphanumeric(chr) ==
    \/ chr >= 48 /\ chr <= 57
    \/ chr >= 65 /\ chr <= 90
    \/ chr >= 97 /\ chr <= 122

Blank == U32(0, 32)                \* ' ' as u32

BigramMask(prev) == <<0, prev[2]>>
TrigramMask(prev) == <<prev[1] % 256, prev[2]>>

\* prev << 8 | code, code < 128
ShiftIn(prev, code) == <<(prev[1] % 256) * 256 + prev[2] \div 256,
                         (prev[2] % 256) * 256 + code>>

\* mutant: the window is kept after a non-alphanumeric character
EmitCharNoReset(st, chr) ==
    IF ~is_ascii(chr)
    THEN [prev |-> st.prev, num |-> 0,
          out |-> st.out \o <<Unicode(chr), UnicodeClass(chr)>>]
    ELSE LET prev == ShiftIn(st.prev, to_ascii_lowercase(chr))
             emitted ==
                 CASE st.num = 0 -> <<>>
                   [] st.num = 1 -> <<AsciiNGram(BigramMask(prev))>>
                   [] st.num = 2 -> <<AsciiNGram(BigramMask(prev)),
                                      AsciiNGram(TrigramMask(prev))>>
                   [] st.num = 3 -> <<AsciiNGram(BigramMask(prev)),
                                      AsciiNGram(TrigramMask(prev)),
                                      AsciiNGram(prev)>>
             num == IF st.num = 3 THEN 3 ELSE st.num + 1
         IN  [prev |-> prev, num |-> num, out |-> st.out \o emitted]

\* one iteration of the loop of emit_tokens on the scanner state
\* [prev, num, out]: out is the sequence of features handed to the listener
EmitChar(st, chr) ==
    IF ~is_ascii(chr)
    THEN [prev |-> st.prev, num |-> 0,
          out |-> st.out \o <<Unicode(chr), UnicodeClass(chr)>>]
    ELSE LET prev == ShiftIn(st.prev, to_ascii_lowercase(chr))
             emitted ==
                 CASE st.num = 0 -> <<>>
                   [] st.num = 1 -> <<AsciiNGram(BigramMask(prev))>>
                   [] st.num = 2 -> <<AsciiNGram(BigramMask(prev)),
                                      AsciiNGram(TrigramMask(prev))>>
                   [] st.num = 3 -> <<AsciiNGram(BigramMask(prev)),
                                      AsciiNGram(TrigramMask(prev)),
                                      AsciiNGram(prev)>>
             num == IF st.num = 3 THEN 3 ELSE st.num + 1
         IN  [prev |-> IF is_alphanumeric(chr) THEN prev ELSE Blank,
              num |-> num,
              out |-> st.out \o emitted]

RECURSIVE EmitFrom(_, _)
EmitFrom(st, text) ==
    IF text = <<>> THEN st
    ELSE EmitFrom(EmitChar(st, Head(text)), Tail(text))

\* the features emit_tokens hands to its listener, in order
emit_tokens(text) ==
    EmitFrom([prev |-> Blank, num |-> 1, out |-> <<>>], text).out

(* ------------------------------------------------------------------ *)
(* f32 as fixed point: the integer v stands for v / Scale              *)
(* ------------------------------------------------------------------ *)

Scale == 128

\* a * b on f32
FMul(a, b) == (a * b) \div Scale

\* the one element of a singleton set: Only({e(x) : x \in {v}}) is e with
\* x standing for the value of v, computed once
Only(S) == CHOOSE x \in S : TRUE

RECURSIVE SqrtSearch(_, _, _)
SqrtSearch(n, lo, hi) ==
    IF lo >= hi THEN lo
    ELSE Only({IF mid * mid <= n THEN SqrtSearch(n, mid, hi)
               ELSE SqrtSearch(n, lo, mid - 1) :
                    mid \in {(lo + hi + 1) \div 2}})

\* (x as f32).sqrt() of a positive integer x
FSqrt(x) == SqrtSearch(x * Scale * Scale, 0, x * Scale)

\* 1.0 / x on f32, x > 0
FRecip(x) == (Scale * Scale) \div x

\* (-d).exp() on f32 for d >= 0: the rational approximation 1/(1 + d + d^2/2)
FExpNeg(d) ==
    (2 * Scale * Scale * Scale) \div (2 * Scale * Scale + 2 * Scale * d + d * d)

\* the smallest positive value: 1e-10 of the loss floor
Epsilon == 1

FMax(a, b) == IF a >= b THEN a ELSE b

\* -(p.ln()) on f32 for 0 < p <= 1: the first term of the atanh series
FNegLn(p) == (2 * Scale * (Scale - p)) \div (Scale + p)

\* f32::INFINITY
INFINITY == 2147483647

Range(s) == {s[i] : i \in 1..Len(s)}

RECURSIVE SumSeq(_)
SumSeq(s) == IF s = <<>> THEN 0 ELSE Head(s) + SumSeq(Tail(s))

RECURSIVE MaxSeq(_)
MaxSeq(s) ==
    IF Len(s) = 1 THEN s[1] ELSE FMax(Head(s), MaxSeq(Tail(s)))

RECURSIVE SumOver(_, _)
SumOver(S, f) ==
    IF S = {} THEN 0
    ELSE LET x == CHOOSE y \in S : TRUE
         IN  f[x] + SumOver(S \ {x}, f)

(* ------------------------------------------------------------------ *)
(* LanguageDetectorTrainer: features and scoring                       *)
(* self = [language_codes, weights, intercepts, config]                *)
(* ------------------------------------------------------------------ *)

\* sentences as sequences of code points: "", "ab", "e-acute", "a b"
Sentences == {<<>>, <<97, 98>>, <<233>>, <<97, 32, 98>>}

\* feature.to_hash() of every feature emit_tokens emits for a sentence, in
\* order (computed once per sentence)
FeatureHashes ==
    [text \in Sentences |->
        LET feats == emit_tokens(text)
        IN  [i \in 1..Len(feats) |-> to_hash(feats[i])]]

\* mutant: the hash reduced by one more than the dimension
BucketOffByOne(hash, dimension) == ModU32(hash, dimension + 1)

\* hash % self.config.dimension as u32
Bucket(hash, dimension) == ModU32(hash, dimension)

\* *count *= norm_factor over the counted buckets
Normalized(feature_counts, total_features) ==
    IF total_features > 0
    THEN Only({[b \in DOMAIN feature_counts |->
                   FMul(feature_counts[b] * Scale, norm_factor)] :
                norm_factor \in {FRecip(FSqrt(total_features))}})
    ELSE [b \in DOMAIN feature_counts |-> feature_counts[b] * Scale]

\* the occurrence count per bucket of a sequence of bucket keys
Counted(bucket) ==
    [b \in {bucket[i] : i \in 1..Len(bucket)} |->
        Cardinality({i \in 1..Len(bucket) : bucket[i] = b})]

\* the HashMap<u32, f32> of extract_features, as a function bucket -> weight
extract_features(self, text) ==
    Only({Normalized(Counted([i \in 1..Len(hashes) |->
                                Bucket(hashes[i], self.config.dimension)]),
                     Len(hashes)) :
            hashes \in {FeatureHashes[text]}})

NumLanguages(self) == Len(self.language_codes)

\* the guard of predict and train_step on a weight index (0-based)
InWeights(self, idx) == idx < Len(self.weights)

\* mutant: the scores start from zero instead of the intercepts
predictFromZero(self, features) ==
    [l \in 1..Len(self.intercepts) |->
        SumOver(DOMAIN features,
                [b \in DOMAIN features |->
                    LET weight_start == b * NumLanguages(self)
                    IN  IF InWeights(self, weight_start + (l - 1))
                        THEN FMul(self.weights[weight_start + (l - 1) + 1],
                                  features[b])
                        ELSE 0])]

\* mutant: an index beyond the matrix wraps around into it
predictWrapping(self, features) ==
    [l \in 1..Len(self.intercepts) |->
        self.intercepts[l] +
        SumOver(DOMAIN features,
                [b \in DOMAIN features |->
                    LET weight_start == b * NumLanguages(self)
                    IN  FMul(self.weights[((weight_start + (l - 1))
                                              % Len(self.weights)) + 1],
                             features[b])])]

predict(self, features) ==
    [l \in 1..Len(self.intercepts) |->
        self.intercepts[l] +
        SumOver(DOMAIN features,
                [b \in DOMAIN features |->
                    LET weight_start == b * NumLanguages(self)
                    IN  IF InWeights(self, weight_start + (l - 1))
                        THEN FMul(self.weights[weight_start + (l - 1) + 1],
                                  features[b])
                        ELSE 0])]

softmax(scores) ==
    IF scores = <<>> THEN <<>>
    ELSE Only({IF SumSeq(exp_scores) > 0
               THEN Only({[i \in 1..Len(scores) |->
                              (exp_scores[i] * Scale) \div sum_exp] :
                            sum_exp \in {SumSeq(exp_scores)}})
               ELSE [i \in 1..Len(scores) |-> Scale \div Len(scores)] :
                 exp_scores \in {Only({[i \in 1..Len(scores) |->
                                          FExpNeg(max_score - scores[i])] :
                                        max_score \in {MaxSeq(scores)}})}})

\* whether predict fails: its one indexing, self.weights[weight_start +
\* lang_idx], panics when the index is beyond the matrix, and is made only
\* under the guard
PredictPanics(self, features) ==
    \E b \in DOMAIN features, l \in 1..Len(self.intercepts) :
        /\ InWeights(self, b * NumLanguages(self) + (l - 1))
        /\ b * NumLanguages(self) + (l - 1) >= Len(self.weights)

\* language_codes.iter().position(|code| code == lan_code): 0 when absent,
\* otherwise the 1-based index of the first match
Position(language_codes, lan_code) ==
    IF \E i \in 1..Len(language_codes) : language_codes[i] = lan_code
    THEN CHOOSE i \in 1..Len(language_codes) :
            /\ language_codes[i] = lan_code
            /\ \A j \in 1..(i - 1) : language_codes[j] # lan_code
    ELSE 0

(* ------------------------------------------------------------------ *)
(* train_step and evaluate                                             *)
(* ------------------------------------------------------------------ *)

\* the gradient factor of class l (1-based) for target class target (1-based)
Gradient(probabilities, l, target) ==
    IF l = target THEN probabilities[l] - Scale ELSE probabilities[l]

\* mutant: dense weight decay, the L2 term applied to every weight
UpdatedWeightDenseDecay(self, features, probabilities, target, weight_idx) ==
    LET n == NumLanguages(self)
        bucket == weight_idx \div n
        l == (weight_idx % n) + 1
        w == self.weights[weight_idx + 1]
        reg_term == FMul(self.config.regularization, w)
        gradient == IF bucket \in DOMAIN features
                    THEN FMul(features[bucket],
                              Gradient(probabilities, l, target))
                    ELSE 0
    IN  w - FMul(self.config.learning_rate, gradient + reg_term)

\* the weight at 0-based index weight_idx after the gradient-descent loop of
\* one example: only the rows of the buckets in features are visited
UpdatedWeight(self, features, probabilities, target, weight_idx) ==
    LET n == NumLanguages(self)
        bucket == weight_idx \div n
        l == (weight_idx % n) + 1
        w == self.weights[weight_idx + 1]
    IN  IF bucket \in DOMAIN features
        THEN LET gradient == FMul(features[bucket],
                                  Gradient(probabilities, l, target))
                 reg_term == FMul(self.config.regularization, w)
             IN  w - FMul(self.config.learning_rate, gradient + reg_term)
        ELSE w

UpdatedIntercept(self, probabilities, target, l) ==
    self.intercepts[l] -
        FMul(self.config.learning_rate, Gradient(probabilities, l, target))

\* the target index and the features of an example that train_step and
\* evaluate process; Skipped when the code is unknown or the features empty
Skipped(self, example) ==
    \/ Position(self.language_codes, example.lan_code) = 0
    \/ DOMAIN extract_features(self, example.sentence) = {}

\* the gradient descent and the intercept update of one example, from its
\* features and the probabilities predicted for it
Descend(self, features, probabilities, target) ==
    [self |->
        [self EXCEPT
           !.weights =
               [i \in 1..Len(self.weights) |->
                   UpdatedWeight(self, features, probabilities, target, i - 1)],
           !.intercepts =
               [l \in 1..Len(self.intercepts) |->
                   UpdatedIntercept(self, probabilities, target, l)]],
     loss |-> FNegLn(FMax(probabilities[target], Epsilon)),
     processed |-> 1]

\* mutant: a skipped example is counted in the mean
ProcessExampleCountingSkipped(self, example) ==
    Only({IF target = 0 \/ DOMAIN features = {}
          THEN [self |-> self, loss |-> 0, processed |-> 1]
          ELSE Only({Descend(self, features, probabilities, target) :
                        probabilities \in {softmax(predict(self, features))}}) :
            target \in {Position(self.language_codes, example.lan_code)},
            features \in {extract_features(self, example.sentence)}})

\* the body of the loop of train_step for one example:
\* [self, loss, processed] after it
ProcessExample(self, example) ==
    Only({IF target = 0 \/ DOMAIN features = {}
          THEN [self |-> self, loss |-> 0, processed |-> 0]
          ELSE Only({Descend(self, features, probabilities, target) :
                        probabilities \in {softmax(predict(self, features))}}) :
            target \in {Position(self.language_codes, example.lan_code)},
            features \in {extract_features(self, example.sentence)}})

RECURSIVE StepFrom(_, _)
StepFrom(acc, examples) ==
    IF examples = <<>> THEN acc
    ELSE Only({StepFrom(next, Tail(examples)) :
                next \in {Only({[self |-> r.self,
                                 total_loss |-> acc.total_loss + r.loss,
                                 processed |-> acc.processed + r.processed] :
                                r \in {ProcessExample(acc.self, Head(examples))}})}})

\* the mean loss train_step returns from its totals
MeanLoss(total_loss, processed) ==
    IF processed > 0 THEN total_loss \div processed ELSE 0

\* train_step: [self, loss] -- the trainer after the batch and the value returned
train_step(self, examples) ==
    Only({[self |-> r.self, loss |-> MeanLoss(r.total_loss, r.processed)] :
            r \in {StepFrom([self |-> self, total_loss |-> 0, processed |-> 0],
                            examples)}})

\* Iterator::max_by over the enumerated scores: the fold keeps the later
\* element unless the earlier one compares Greater
RECURSIVE MaxByFrom(_, _, _)
MaxByFrom(scores, best, i) ==
    IF i > Len(scores) THEN best
    ELSE MaxByFrom(scores, IF scores[best] > scores[i] THEN best ELSE i, i + 1)

\* mutant: the first of several equal maxima wins
RECURSIVE FirstMaxFrom(_, _, _)
FirstMaxFrom(scores, best, i) ==
    IF i > Len(scores) THEN best
    ELSE FirstMaxFrom(scores, IF scores[best] >= scores[i] THEN best ELSE i,
                      i + 1)

PredictedIdxFirstMax(scores) ==
    IF scores = <<>> THEN 1 ELSE FirstMaxFrom(scores, 1, 2)

\* predicted_idx of evaluate, 1-based (unwrap_or(0) on no scores)
PredictedIdx(scores) ==
    IF scores = <<>> THEN 1 ELSE MaxByFrom(scores, 1, 2)

\* the scoreable examples of evaluate, in order
Scoreable(self, test_data) ==
    SelectSeq(test_data, LAMBDA ex : ~Skipped(self, ex))

\* self.predict(&self.extract_features(text))
Scores(self, text) ==
    Only({predict(self, features) :
            features \in {extract_features(self, text)}})

\* the counting loop of evaluate over the scoreable examples
Scored(self, scored) ==
    Only({[accuracy |->
              IF Len(scored) > 0
              THEN (Cardinality({i \in 1..Len(scored) :
                                    predicted[i] = target[i]}) * Scale)
                        \div Len(scored)
              ELSE 0,
           predicted |-> predicted,
           target |-> target] :
            predicted \in
                {[i \in 1..Len(scored) |->
                    PredictedIdx(Scores(self, scored[i].sentence))]},
            target \in
                {[i \in 1..Len(scored) |->
                    Position(self.language_codes, scored[i].lan_code)]}})

\* evaluate: [accuracy, predicted, target] -- the value returned, and per
\* scoreable example the predicted and the target index (1-based)
evaluate(self, test_data) ==
    Only({Scored(self, scored) : scored \in {Scoreable(self, test_data)}})

(* ------------------------------------------------------------------ *)
(* create_balanced_dataset                                             *)
(* ------------------------------------------------------------------ *)

RemoveAt(s, i) == SubSeq(s, 1, i - 1) \o SubSeq(s, i + 1, Len(s))

\* every order slice::shuffle can leave s in
RECURSIVE PermsOf(_)
PermsOf(s) ==
    IF s = <<>> THEN {<<>>}
    ELSE UNION {{<<s[i]>> \o p : p \in PermsOf(RemoveAt(s, i))} :
                    i \in 1..Len(s)}

\* lang_data[lang_code]: the examples of one code, in corpus order
Group(data, lang_code) ==
    SelectSeq(data, LAMBDA ex : ex.lan_code = lang_code)

\* mutant: a class short of examples is passed through without duplication
ResampledNoUpsample(examples, needed) ==
    IF Len(examples) >= needed
    THEN {SubSeq(p, 1, needed) : p \in PermsOf(examples)}
    ELSE {examples}

\* mutant: downsampling draws with replacement
ResampledWithReplacement(examples, needed) ==
    {SubSeq(examples \o extra, 1, needed) :
        extra \in [1..(needed - Len(examples)) -> Range(examples)]}
    \cup {extra \in [1..needed -> Range(examples)] : Len(examples) >= needed}

\* the lists one language can contribute: a shuffle truncated to needed
\* (downsample), or the originals followed by random duplicates (upsample)
Resampled(examples, needed) ==
    IF Len(examples) >= needed
    THEN {SubSeq(p, 1, needed) : p \in PermsOf(examples)}
    ELSE {SubSeq(examples \o extra, 1, needed) :
              extra \in [1..(needed - Len(examples)) -> Range(examples)]}

\* the loop over self.language_codes: every balanced_data it can build
RECURSIVE BalancedFrom(_, _, _)
BalancedFrom(codes, data, needed) ==
    IF codes = <<>> THEN {<<>>}
    ELSE LET examples == Group(data, Head(codes))
             rest == BalancedFrom(Tail(codes), data, needed)
         IN  IF examples = <<>> THEN rest
             ELSE {mine \o others :
                      mine \in Resampled(examples, needed), others \in rest}

\* every value create_balanced_dataset can return (after the final shuffle)
create_balanced_dataset(self, data) ==
    UNION {PermsOf(b) :
             b \in BalancedFrom(self.language_codes, data,
                                self.config.samples_per_language)}

(* ------------------------------------------------------------------ *)
(* train: the epoch loop                                               *)
(* ------------------------------------------------------------------ *)

\* (len as f32 * train_test_split) as usize, the ratio given as <<num, den>>
SplitIdx(len, ratio) == (len * ratio[1]) \div ratio[2]

\* slice::chunks(batch_size)
RECURSIVE Chunks(_, _)
Chunks(s, batch_size) ==
    IF s = <<>> THEN <<>>
    ELSE IF Len(s) <= batch_size THEN <<s>>
    ELSE <<SubSeq(s, 1, batch_size)>> \o
         Chunks(SubSeq(s, batch_size + 1, Len(s)), batch_size)

\* the batch loop of one epoch: [self, total_loss, num_batches] after it
RECURSIVE BatchesFrom(_, _)
BatchesFrom(acc, batches) ==
    IF batches = <<>> THEN acc
    ELSE Only({BatchesFrom(next, Tail(batches)) :
                next \in {Only({[self |-> r.self,
                                 total_loss |-> acc.total_loss + r.loss,
                                 num_batches |-> acc.num_batches + 1] :
                                r \in {train_step(acc.self, Head(batches))}})}})

AvgLoss(total_loss, num_batches) ==
    IF num_batches > 0 THEN total_loss \div num_batches ELSE 0

\* the epochs (0-based index) in which train runs evaluate on the test split
EvaluatesAt(epoch, epochs) == epoch % 10 = 0 \/ epoch = epochs - 1

\* the early-stopping test on the epoch loss
Improved(avg_loss, best) == avg_loss < best

\* mutant: best_loss follows the latest epoch loss
EarlyStoppingTracksLast(avg_loss, best, counter, patience) ==
    IF Improved(avg_loss, best)
    THEN [best_loss |-> avg_loss, patience_counter |-> 0, break |-> FALSE]
    ELSE [best_loss |-> avg_loss, patience_counter |-> counter + 1,
          break |-> counter + 1 >= patience]

\* mutant: one more idle epoch is allowed than the patience
EarlyStoppingOneLate(avg_loss, best, counter, patience) ==
    IF Improved(avg_loss, best)
    THEN [best_loss |-> avg_loss, patience_counter |-> 0, break |-> FALSE]
    ELSE [best_loss |-> best, patience_counter |-> counter + 1,
          break |-> counter + 1 > patience]

\* the bookkeeping of the early-stopping block: [best_loss, patience_counter,
\* break] after an epoch whose loss is avg_loss
EarlyStopping(avg_loss, best, counter, patience) ==
    IF Improved(avg_loss, best)
    THEN [best_loss |-> avg_loss, patience_counter |-> 0, break |-> FALSE]
    ELSE [best_loss |-> best, patience_counter |-> counter + 1,
          break |-> counter + 1 >= patience]

(* ------------------------------------------------------------------ *)
(* State                                                               *)
(* ------------------------------------------------------------------ *)

VARIABLES
    language_codes,     \* self.language_codes
    weights,            \* self.weights
    intercepts,         \* self.intercepts
    config,             \* self.config
    phase,              \* of train: "idle", "running" or "stopped"
    epoch,              \* iterations of the epoch loop run so far
    best_loss,          \* best_loss of train
    patience_counter,   \* patience_counter of train
    train_data,         \* train_data of train
    test_data,          \* test_data of train
    corpus,             \* training_data of main: the loaded corpus
    calls,              \* calls made on the trainer so far
    last                \* the last call: its name, arguments, the trainer
                        \* before it, and what it returned

vars == <<language_codes, weights, intercepts, config, phase, epoch,
          best_loss, patience_counter, train_data, test_data, corpus, calls,
          last>>

Self == [language_codes |-> language_codes, weights |-> weights,
         intercepts |-> intercepts, config |-> config]

(* ------------------------------------------------------------------ *)
(* Bounds and inputs                                                   *)
(* ------------------------------------------------------------------ *)

MaxDimension == 2
MaxBatch == 2
MaxData == 4
MaxSamples == 2
MaxEpochs == 4
MaxPatience == 2
MaxSeed == 1
MaxCalls == 2
MaxCodepoint == 400
MaxLen == 5

AllCodes == <<"en", "fr">>

\* the sorted, de-duplicated code lists main builds from a corpus
RECURSIVE SubLists(_)
SubLists(s) ==
    IF s = <<>> THEN {<<>>}
    ELSE LET rest == SubLists(Tail(s))
         IN  rest \cup {<<Head(s)>> \o r : r \in rest}

\* a code no trainer is built for
UnknownCode == "xx"

Examples(ids, codes, sentences) ==
    {[id |-> i, lan_code |-> c, sentence |-> t] :
        i \in ids, c \in codes, t \in sentences}

RECURSIVE SeqsUpTo(_, _)
SeqsUpTo(S, n) ==
    IF n = 0 THEN {<<>>}
    ELSE LET shorter == SeqsUpTo(S, n - 1)
         IN  shorter \cup {<<x>> \o t : x \in S, t \in {u \in shorter : Len(u) = n - 1}}

\* (rand::random::<f32>() - 0.5) * 0.01: a value of magnitude below 0.005,
\* the i-th draw of the generator seeded with seed
RandomSmall(seed, i) == ((seed * (i + 1) + i) % 3) - 1

\* LanguageDetectorTrainer::new
New(codes, cfg, seed) ==
    LET num_languages == Len(codes)
        total_weights == cfg.dimension * num_languages
    IN  [language_codes |-> codes,
         weights |-> [i \in 1..total_weights |-> RandomSmall(seed, i)],
         intercepts |-> [i \in 1..num_languages |->
                            RandomSmall(seed, total_weights + i)],
         config |-> cfg]

Config(dimension, epochs, batch_size, patience, samples) ==
    [learning_rate |-> Scale \div 2,
     epochs |-> epochs,
     regularization |-> Scale \div 4,
     dimension |-> dimension,
     train_test_split |-> <<4, 5>>,
     batch_size |-> batch_size,
     early_stopping_patience |-> patience,
     samples_per_language |-> samples]

NoCall == [op |-> "new", input |-> <<>>, before |-> <<>>, output |-> <<>>]

\* the state after construction from one trainer
InitFrom(trainer, training_data) ==
    /\ corpus = training_data
    /\ language_codes = trainer.language_codes
    /\ weights = trainer.weights
    /\ intercepts = trainer.intercepts
    /\ config = trainer.config
    /\ phase = "idle"
    /\ epoch = 0
    /\ best_loss = INFINITY
    /\ patience_counter = 0
    /\ train_data = <<>>
    /\ test_data = <<>>
    /\ calls = 0
    /\ last = NoCall

SetSelf(trainer) ==
    /\ weights' = trainer.weights
    /\ intercepts' = trainer.intercepts
    /\ UNCHANGED <<language_codes, config>>

(* ------------------------------------------------------------------ *)
(* Calls                                                               *)
(* ------------------------------------------------------------------ *)

\* trainer.predict(&trainer.extract_features(text))
Predict(text) ==
    /\ phase # "running"
    /\ calls < MaxCalls
    /\ \E features \in {extract_features(Self, text)} :
          last' = [op |-> "predict", input |-> text, before |-> Self,
                   output |-> [features |-> features,
                               scores |-> predict(Self, features)]]
    /\ calls' = calls + 1
    /\ UNCHANGED <<language_codes, weights, intercepts, config, phase, epoch,
                   best_loss, patience_counter, train_data, test_data, corpus>>

\* trainer.predict(&features) on a feature map of the caller's making
PredictFeatures(features) ==
    /\ phase # "running"
    /\ calls < MaxCalls
    /\ last' = [op |-> "predict_features", input |-> features, before |-> Self,
                output |-> [panicked |-> PredictPanics(Self, features),
                            scores |-> predict(Self, features)]]
    /\ calls' = calls + 1
    /\ UNCHANGED <<language_codes, weights, intercepts, config, phase, epoch,
                   best_loss, patience_counter, train_data, test_data, corpus>>

\* classify_codepoint(chr) for a character of the first sentence of the corpus
ClassifyCodepoint ==
    /\ phase # "running"
    /\ calls < MaxCalls
    /\ corpus # <<>>
    /\ \E i \in 1..Len(corpus[1].sentence) :
          last' = [op |-> "classify_codepoint",
                   input |-> corpus[1].sentence[i], before |-> Self,
                   output |-> classify_codepoint(corpus[1].sentence[i])]
    /\ calls' = calls + 1
    /\ UNCHANGED <<language_codes, weights, intercepts, config, phase, epoch,
                   best_loss, patience_counter, train_data, test_data, corpus>>

\* emit_tokens(text, listener) for the first sentence of the corpus, the
\* listener collecting the features
EmitTokens ==
    /\ phase # "running"
    /\ calls < MaxCalls
    /\ corpus # <<>>
    /\ last' = [op |-> "emit_tokens", input |-> corpus[1].sentence,
                before |-> Self,
                output |-> emit_tokens(corpus[1].sentence)]
    /\ calls' = calls + 1
    /\ UNCHANGED <<language_codes, weights, intercepts, config, phase, epoch,
                   best_loss, patience_counter, train_data, test_data, corpus>>

\* trainer.train_step(examples)
TrainStep(examples) ==
    /\ phase # "running"
    /\ calls < MaxCalls
    /\ \E r \in {train_step(Self, examples)} :
          /\ SetSelf(r.self)
          /\ last' = [op |-> "train_step", input |-> examples,
                      before |-> Self, output |-> r.loss]
    /\ calls' = calls + 1
    /\ UNCHANGED <<phase, epoch, best_loss, patience_counter, train_data,
                   test_data, corpus>>

\* trainer.evaluate(data)
Evaluate(data) ==
    /\ phase # "running"
    /\ calls < MaxCalls
    /\ last' = [op |-> "evaluate", input |-> data, before |-> Self,
                output |-> evaluate(Self, data)]
    /\ calls' = calls + 1
    /\ UNCHANGED <<language_codes, weights, intercepts, config, phase, epoch,
                   best_loss, patience_counter, train_data, test_data, corpus>>

\* trainer.create_balanced_dataset(&training_data)
CreateBalancedDataset ==
    /\ phase # "running"
    /\ calls < MaxCalls
    /\ \E balanced_data \in create_balanced_dataset(Self, corpus) :
          last' = [op |-> "create_balanced_dataset", input |-> corpus,
                   before |-> Self, output |-> balanced_data]
    /\ calls' = calls + 1
    /\ UNCHANGED <<language_codes, weights, intercepts, config, phase, epoch,
                   best_loss, patience_counter, train_data, test_data, corpus>>

\* trainer.train(&training_data), up to the epoch loop: balance, shuffle, split
TrainBegin ==
    /\ phase = "idle"
    /\ calls < MaxCalls
    /\ \E balanced_data \in create_balanced_dataset(Self, corpus) :
       \E shuffled_data \in PermsOf(balanced_data) :
          LET split_idx == SplitIdx(Len(shuffled_data), config.train_test_split)
          IN  /\ train_data' = SubSeq(shuffled_data, 1, split_idx)
              /\ test_data' = SubSeq(shuffled_data, split_idx + 1,
                                     Len(shuffled_data))
    /\ best_loss' = INFINITY
    /\ patience_counter' = 0
    /\ epoch' = 0
    /\ phase' = IF config.epochs = 0 THEN "stopped" ELSE "running"
    /\ last' = [op |-> "train", input |-> corpus, before |-> Self,
                output |-> <<>>]
    /\ calls' = calls + 1
    /\ UNCHANGED <<language_codes, weights, intercepts, config, corpus>>

\* one iteration of the epoch loop of train
TrainEpoch ==
    /\ phase = "running"
    /\ epoch < config.epochs
    /\ \E epoch_data \in PermsOf(train_data) :
       \E r \in {BatchesFrom([self |-> Self, total_loss |-> 0,
                              num_batches |-> 0],
                             Chunks(epoch_data, config.batch_size))} :
       \E avg_loss \in {AvgLoss(r.total_loss, r.num_batches)} :
       \E es \in {EarlyStopping(avg_loss, best_loss, patience_counter,
                                config.early_stopping_patience)} :
          /\ SetSelf(r.self)
          /\ best_loss' = es.best_loss
          /\ patience_counter' = es.patience_counter
          /\ epoch' = epoch + 1
          /\ phase' = IF es.break \/ epoch + 1 >= config.epochs
                      THEN "stopped" ELSE "running"
          /\ last' = [op |-> "epoch", input |-> epoch_data,
                      before |-> Self,
                      output |->
                        [epoch |-> epoch,
                         avg_loss |-> avg_loss,
                         best_before |-> best_loss,
                         counter_before |-> patience_counter,
                         evaluated |-> EvaluatesAt(epoch, config.epochs),
                         test_accuracy |->
                            IF EvaluatesAt(epoch, config.epochs)
                            THEN evaluate(r.self, test_data).accuracy
                            ELSE 0,
                         break |-> es.break]]
    /\ UNCHANGED <<train_data, test_data, corpus, calls>>

(* ------------------------------------------------------------------ *)
(* Specifications                                                      *)
(* ------------------------------------------------------------------ *)

\* the batches and test sets handed to train_step and evaluate
Batches ==
    SeqsUpTo(Examples({1}, Range(AllCodes) \cup {UnknownCode},
                      Sentences \ {<<97, 32, 98>>}),
             MaxBatch)

\* the corpora a trainer is run on: none, and one sentence per language
Corpora ==
    {<<>>,
     <<[id |-> 1, lan_code |-> "en", sentence |-> <<97, 98>>],
       [id |-> 2, lan_code |-> "fr", sentence |-> <<233>>]>>}

\* the feature maps handed to predict: weight 1.0 on any of the buckets 0, 1
\* and MaxDimension, the last one beyond the matrix of every trainer
FeatureMaps ==
    {[b \in S |-> Scale] : S \in SUBSET {0, 1, MaxDimension}}

\* Spec: a trainer of any code list and dimension, and calls on it
Init ==
    \E codes \in SubLists(AllCodes), dimension \in 1..MaxDimension,
       seed \in 0..MaxSeed, training_data \in Corpora :
        InitFrom(New(codes, Config(dimension, 1, MaxBatch, 1, 1), seed),
                 training_data)

Next ==
    \/ \E text \in Sentences : Predict(text)
    \/ \E features \in FeatureMaps : PredictFeatures(features)
    \/ \E examples \in Batches : TrainStep(examples)
    \/ \E data \in Batches : Evaluate(data)
    \/ TrainBegin
    \/ TrainEpoch

Spec == Init /\ [][Next]_vars

\* SpecBalance: create_balanced_dataset on any corpus, for any code list and
\* any samples_per_language
BalanceCorpora ==
    SeqsUpTo(Examples({1, 2}, Range(AllCodes), {<<97, 98>>}), MaxData)

InitBalance ==
    \E codes \in SubLists(AllCodes) \ {<<>>}, samples \in 0..MaxSamples,
       training_data \in BalanceCorpora :
        InitFrom(New(codes, Config(1, 1, 1, 1, samples), 0), training_data)

NextBalance == CreateBalancedDataset

SpecBalance == InitBalance /\ [][NextBalance]_vars

\* SpecTrain: one run of train, for any epoch count, patience and batch size,
\* on corpora whose languages the features tell apart or do not
TrainCorpora ==
    Corpora \cup
    {<<[id |-> 1, lan_code |-> "en", sentence |-> <<97, 98>>],
       [id |-> 2, lan_code |-> "fr", sentence |-> <<97, 98>>]>>,
     <<[id |-> 1, lan_code |-> "en", sentence |-> <<97, 98>>],
       [id |-> 2, lan_code |-> "fr", sentence |-> <<97, 98>>],
       [id |-> 3, lan_code |-> "fr", sentence |-> <<233>>]>>}

InitTrain ==
    \E codes \in {<<"en", "fr">>}, epochs \in 0..MaxEpochs,
       patience \in 0..MaxPatience, batch_size \in 1..MaxBatch,
       samples \in 1..MaxSamples, seed \in 0..MaxSeed,
       training_data \in TrainCorpora :
        InitFrom(New(codes, Config(MaxDimension, epochs, batch_size, patience,
                                   samples), seed),
                 training_data)

NextTrain == TrainBegin \/ TrainEpoch

SpecTrain == InitTrain /\ [][NextTrain]_vars

(* ------------------------------------------------------------------ *)
(* Properties of create_balanced_dataset                               *)
(* ------------------------------------------------------------------ *)

Occurrences(s, x) == Cardinality({i \in 1..Len(s) : s[i] = x})

CountOfCode(s, code) == Cardinality({i \in 1..Len(s) : s[i].lan_code = code})

CodesIn(s) == {s[i].lan_code : i \in 1..Len(s)}

Balanced == last.op = "create_balanced_dataset"

\* C1 as stated: the output holds exactly samples_per_language examples of
\* every language code present in the corpus, and samples_per_language times
\* the number of codes present in the corpus in all.
C1_EveryCorpusCode ==
    Balanced =>
        /\ \A code \in CodesIn(last.input) :
              CountOfCode(last.output, code) = config.samples_per_language
        /\ Len(last.output) =
              config.samples_per_language * Cardinality(CodesIn(last.input))

\* C1 amended: the output holds exactly samples_per_language examples of
\* every code of the corpus that is one of the trainer's language_codes, none
\* of any other code, and samples_per_language times the number of such
\* codes in all.
C1_EveryKnownCode ==
    Balanced =>
        LET known == CodesIn(last.input) \cap Range(language_codes)
        IN  /\ \A code \in known :
                  CountOfCode(last.output, code) = config.samples_per_language
            /\ \A code \in CodesIn(last.input) \ known :
                  CountOfCode(last.output, code) = 0
            /\ Len(last.output) =
                  config.samples_per_language * Cardinality(known)

\* a balanced output with one class upsampled and one class truly downsampled
C1_Witness ==
    /\ Balanced
    /\ \E up, down \in Range(language_codes) :
          /\ CountOfCode(last.input, up) > 0
          /\ CountOfCode(last.input, up) < config.samples_per_language
          /\ CountOfCode(last.input, down) > config.samples_per_language
          /\ CountOfCode(last.output, up) = config.samples_per_language
          /\ CountOfCode(last.output, down) = config.samples_per_language

Stepped == last.op = "train_step"

\* the examples of a batch that train_step does not skip
Valid(self, examples) == SelectSeq(examples, LAMBDA ex : ~Skipped(self, ex))

\* C3: train_step on a batch that mixes skipped examples (unknown code or
\* empty feature vector) with valid ones returns the loss and leaves the
\* model that train_step on the valid examples alone does; with no valid
\* example it returns 0 and leaves the model unchanged.
C3_SkippedExamplesIgnored ==
    Stepped =>
        \E alone \in {train_step(last.before,
                                 Valid(last.before, last.input))} :
            /\ weights = alone.self.weights
            /\ intercepts = alone.self.intercepts
            /\ last.output = alone.loss
            /\ Valid(last.before, last.input) = <<>> =>
                  /\ last.output = 0
                  /\ weights = last.before.weights
                  /\ intercepts = last.before.intercepts

\* a batch of one example of an unknown code and one valid example, which
\* train_step has learned from
C3_Witness ==
    /\ Stepped
    /\ \E i, j \in 1..Len(last.input) :
          /\ Position(language_codes, last.input[i].lan_code) = 0
          /\ ~Skipped(last.before, last.input[j])
    /\ last.output > 0
    /\ weights # last.before.weights

Evaluated == last.op = "evaluate"

\* the classes whose score is the maximum of a score vector
ArgMaxes(scores) ==
    {l \in 1..Len(scores) : \A k \in 1..Len(scores) : scores[k] <= scores[l]}

Least(S) == CHOOSE x \in S : \A y \in S : x <= y

Greatest(S) == CHOOSE x \in S : \A y \in S : y <= x

\* the score vector evaluate computed for its i-th scoreable example
ScoresOfScoreable(i) ==
    Scores(last.before, Scoreable(last.before, last.input)[i].sentence)

\* C4 as stated: evaluate predicts the arg-max class, the lowest index
\* among several classes that share the maximum score.
C4_LowestIndexWinsTies ==
    Evaluated =>
        \A i \in 1..Len(last.output.predicted) :
            last.output.predicted[i] = Least(ArgMaxes(ScoresOfScoreable(i)))

\* C4 amended: evaluate predicts the arg-max class, the highest index among
\* several classes that share the maximum score.
C4_HighestIndexWinsTies ==
    Evaluated =>
        \A i \in 1..Len(last.output.predicted) :
            last.output.predicted[i] = Greatest(ArgMaxes(ScoresOfScoreable(i)))

\* an evaluation of an example on which two classes share the maximum score
C4_Witness ==
    /\ Evaluated
    /\ \E i \in 1..Len(last.output.predicted) :
          /\ Cardinality(ArgMaxes(ScoresOfScoreable(i))) >= 2
          /\ last.output.predicted[i] = Greatest(ArgMaxes(ScoresOfScoreable(i)))
          /\ last.output.predicted[i] # Least(ArgMaxes(ScoresOfScoreable(i)))

\* C5: for every text the buckets of extract_features lie in 0..dimension-1,
\* the weight matrix has dimension * num_classes entries in every state, and
\* so every index bucket * num_classes + class is inside the matrix.
C5_BucketsInsideWeights ==
    /\ Len(weights) = config.dimension * Len(language_codes)
    /\ Len(intercepts) = Len(language_codes)
    /\ \A text \in Sentences :
       \A bucket \in DOMAIN extract_features(Self, text) :
          /\ 0 <= bucket
          /\ bucket < config.dimension
          /\ \A lang_idx \in 0..(Len(language_codes) - 1) :
                InWeights(Self, bucket * Len(language_codes) + lang_idx)

\* a trainer that train has run on (its first epoch evaluates) and that
\* train_step has then changed
C5_Witness ==
    /\ phase = "stopped"
    /\ epoch >= 1
    /\ Stepped
    /\ weights # last.before.weights
    /\ Len(weights) >= 4

\* C7: extract_features of the empty text is the empty map, and predict on
\* the empty map returns the intercept vector, in every state of the model.
C7_EmptyTextScoresIntercepts ==
    /\ DOMAIN extract_features(Self, <<>>) = {}
    /\ predict(Self, extract_features(Self, <<>>)) = intercepts
    /\ (last.op = "predict" /\ last.input = <<>>) =>
          /\ DOMAIN last.output.features = {}
          /\ last.output.scores = last.before.intercepts

\* predict called on the empty text of a trainer that has learned: some
\* intercept is beyond the initial range and some weight is not zero
C7_Witness ==
    /\ last.op = "predict"
    /\ last.input = <<>>
    /\ \E l \in 1..Len(intercepts) : intercepts[l] > 1 \/ intercepts[l] < -1
    /\ \E i \in 1..Len(weights) : weights[i] # 0
    /\ last.output.scores = intercepts

\* the buckets of the feature vectors of the examples train_step processed
Touched(self, examples) ==
    UNION {DOMAIN extract_features(self, Valid(self, examples)[i].sentence) :
              i \in 1..Len(Valid(self, examples))}

\* C10: train_step changes only the weights in the rows of the buckets of
\* the processed examples' feature vectors, and the intercepts; the weights
\* of every other bucket keep their value (no L2 decay), and the code list
\* and the configuration are left alone.
C10_UntouchedRowsUnchanged ==
    Stepped =>
        /\ \A i \in 1..Len(weights) :
              ((i - 1) \div Len(language_codes))
                    \notin Touched(last.before, last.input)
              => weights[i] = last.before.weights[i]
        /\ language_codes = last.before.language_codes
        /\ config = last.before.config

\* train_step on one example that changed a weight of a touched row and
\* left a nonzero weight of an untouched row as it was
C10_Witness ==
    /\ Stepped
    /\ Len(last.input) = 1
    /\ \E i, j \in 1..Len(weights) :
          /\ ((i - 1) \div Len(language_codes))
                \in Touched(last.before, last.input)
          /\ weights[i] # last.before.weights[i]
          /\ ((j - 1) \div Len(language_codes))
                \notin Touched(last.before, last.input)
          /\ last.before.weights[j] # 0
          /\ weights[j] = last.before.weights[j]

(* ------------------------------------------------------------------ *)
(* Properties of train                                                 *)
(* ------------------------------------------------------------------ *)

EpochRun == last.op = "epoch"

\* C6: across the epochs of a train run best_loss never increases.
C6_BestLossNeverIncreases == [][best_loss' <= best_loss]_vars

\* an epoch whose loss rose above the best loss, which was kept
C6_Witness ==
    /\ EpochRun
    /\ last.output.avg_loss > last.output.best_before
    /\ best_loss = last.output.best_before
    /\ best_loss < INFINITY

\* C8: an epoch whose loss does not strictly improve on the best increments
\* the idle counter, an epoch whose loss does resets it to zero; the run
\* stops early in the epoch whose increment brings the counter to the
\* patience, otherwise after exactly the configured number of epochs, and
\* never runs more epochs than configured.
C8_EarlyStoppingBookkeeping ==
    /\ epoch <= config.epochs
    /\ phase = "running" => epoch < config.epochs
    /\ last.op = "train" => (phase = "stopped" <=> config.epochs = 0)
    /\ EpochRun =>
          /\ epoch = last.output.epoch + 1
          /\ IF last.output.avg_loss < last.output.best_before
             THEN /\ patience_counter = 0
                  /\ best_loss = last.output.avg_loss
                  /\ ~last.output.break
             ELSE /\ patience_counter = last.output.counter_before + 1
                  /\ best_loss = last.output.best_before
                  /\ last.output.break <=>
                        patience_counter >= config.early_stopping_patience
          /\ phase = "stopped" <=>
                (last.output.break \/ epoch = config.epochs)

\* a run stopped early, before its last configured epoch, by two idle
\* epochs in a row after an epoch that reset the counter
C8_Witness ==
    /\ EpochRun
    /\ phase = "stopped"
    /\ last.output.break
    /\ epoch < config.epochs
    /\ config.early_stopping_patience = 2
    /\ patience_counter = 2

\* C9: train runs the Evaluator in every tenth epoch and in the final epoch
\* of the run, whether the run ends by exhausting the configured epochs or
\* by early stopping.
C9_FinalEpochEvaluated ==
    EpochRun =>
        /\ last.output.epoch % 10 = 0 => last.output.evaluated
        /\ phase = "stopped" => last.output.evaluated

(* ------------------------------------------------------------------ *)
(* Properties of predict on buckets beyond the weight matrix           *)
(* ------------------------------------------------------------------ *)

PredictedFeatures == last.op = "predict_features"

\* the buckets of a feature map whose weights lie beyond the weight matrix
OutOfRange(self, features) ==
    {b \in DOMAIN features : b >= self.config.dimension}

\* a feature map without its buckets beyond the weight matrix
InRangeOnly(self, features) ==
    [b \in DOMAIN features \ OutOfRange(self, features) |-> features[b]]

\* C11 as stated: predict fails on a feature bucket whose weight lookup
\* falls outside the weight matrix, instead of returning scores computed
\* without it.
C11_OutOfRangeBucketFails ==
    (PredictedFeatures /\ OutOfRange(last.before, last.input) # {})
        => last.output.panicked

\* C11 amended: predict never fails on a feature bucket whose weight lookup
\* falls outside the weight matrix; it skips the bucket silently and
\* returns the scores of the feature map without it.
C11_OutOfRangeBucketIgnored ==
    PredictedFeatures =>
        /\ ~last.output.panicked
        /\ last.output.scores =
              predict(last.before, InRangeOnly(last.before, last.input))
        /\ Len(last.output.scores) = Len(last.before.language_codes)

\* predict on a map with a bucket inside the matrix that moved the scores
\* off the intercepts and a bucket beyond it, on a trainer that has learned
C11_Witness ==
    /\ PredictedFeatures
    /\ OutOfRange(last.before, last.input) # {}
    /\ DOMAIN InRangeOnly(last.before, last.input) # {}
    /\ last.output.scores # last.before.intercepts
    /\ calls = 2
    /\ ~last.output.panicked

(* ------------------------------------------------------------------ *)
(* SpecTokens: classify_codepoint and emit_tokens on any sentence      *)
(* ------------------------------------------------------------------ *)

\* the code points classified: the low ones, every table entry with its two
\* neighbours, and char::MAX
Codepoints ==
    (0..MaxCodepoint)
    \cup UNION {{BoundaryTable[i] - 1, BoundaryTable[i], BoundaryTable[i] + 1} :
                   i \in DOMAIN BoundaryTable}
    \cup {1114111}

\* a letter, a capital, a punctuation mark, the blank and a non-ASCII letter
Alphabet == {97, 66, 44, 32, 233}

\* the sentences scanned: every text over Alphabet up to MaxLen characters,
\* and every code point alone
TokenTexts ==
    SeqsUpTo(Alphabet, MaxLen) \cup {<<chr>> : chr \in Codepoints}

InitTokens ==
    \E text \in TokenTexts :
        InitFrom(New(AllCodes, Config(1, 1, 1, 1, 1), 0),
                 <<[id |-> 1, lan_code |-> "en", sentence |-> text]>>)

NextTokens == ClassifyCodepoint \/ EmitTokens

SpecTokens == InitTokens /\ [][NextTokens]_vars

(* ------------------------------------------------------------------ *)
(* Properties of classify_codepoint                                    *)
(* ------------------------------------------------------------------ *)

Classified == last.op = "classify_codepoint"

InTable(chr) == \E i \in DOMAIN BoundaryTable : BoundaryTable[i] = chr

EntriesBelow(chr) == {i \in DOMAIN BoundaryTable : BoundaryTable[i] < chr}

\* C12 as stated: a code point equal to a table entry gets that entry's
\* rank (0-based index), every other code point the rank of the nearest
\* table entry below it.
C12_RankOfEntryBelow ==
    Classified =>
        IF InTable(last.input)
        THEN BoundaryTable[last.output + 1] = last.input
        ELSE EntriesBelow(last.input) # {} =>
                last.output + 1 = Greatest(EntriesBelow(last.input))

\* C12 amended: a code point equal to a table entry gets that entry's rank
\* (0-based index); every other code point gets its insertion position, the
\* number of entries below it: one more than the rank of the nearest entry
\* below it, and 0 when no entry is below it.
C12_InsertionPosition ==
    Classified =>
        /\ last.output \in 0..Len(BoundaryTable)
        /\ IF InTable(last.input)
           THEN BoundaryTable[last.output + 1] = last.input
           ELSE /\ \A i \in 1..last.output : BoundaryTable[i] < last.input
                /\ \A i \in (last.output + 1)..Len(BoundaryTable) :
                      BoundaryTable[i] > last.input
                /\ EntriesBelow(last.input) # {} =>
                      last.output = Greatest(EntriesBelow(last.input))

\* a code point strictly between two neighbouring entries of the table,
\* classified as the rank of the upper one
C12_Witness ==
    /\ Classified
    /\ ~InTable(last.input)
    /\ last.output >= 1
    /\ last.output < Len(BoundaryTable)
    /\ BoundaryTable[last.output] < last.input
    /\ last.input < BoundaryTable[last.output + 1]

(* ------------------------------------------------------------------ *)
(* Properties of emit_tokens                                           *)
(* ------------------------------------------------------------------ *)

Scanned == last.op = "emit_tokens"

\* a character that ends a run: not ASCII, or ASCII and not alphanumeric
IsBoundary(chr) == ~is_ascii(chr) \/ ~is_alphanumeric(chr)

\* the last position before i that holds a boundary, 0 when there is none
LastBoundary(text, i) ==
    Greatest({0} \cup {k \in 1..(i - 1) : IsBoundary(text[k])})

\* the features of the scan emitted at position i of the scanned text
EmittedAt(i) ==
    SubSeq(last.output,
           Len(emit_tokens(SubSeq(last.input, 1, i - 1))) + 1,
           Len(emit_tokens(SubSeq(last.input, 1, i))))

\* the byte of an n-gram that stands j characters before its last one
ByteAt(ngram, j) ==
    CASE j = 0 -> ngram[2] % 256
      [] j = 1 -> ngram[2] \div 256
      [] j = 2 -> ngram[1] % 256
      [] j = 3 -> ngram[1] \div 256

\* C13: no ASCII n-gram crosses a boundary. A non-ASCII character emits no
\* n-gram; an n-gram emitted at position i ends in the character at i and,
\* with k the last earlier position holding a non-alphanumeric ASCII or a
\* non-ASCII character, holds at the places of the positions up to k no
\* byte of those characters: only zero, or the blank code at the place of
\* k itself when the character at k is ASCII (or the text starts there).
C13_NGramsStayInsideRuns ==
    Scanned =>
        \A i \in 1..Len(last.input) : \A n \in 1..Len(EmittedAt(i)) :
            IF ~is_ascii(last.input[i])
            THEN EmittedAt(i)[n].kind # "AsciiNGram"
            ELSE /\ EmittedAt(i)[n].kind = "AsciiNGram"
                 /\ ByteAt(EmittedAt(i)[n].v, 0)
                        = to_ascii_lowercase(last.input[i])
                 /\ \A j \in 1..3 :
                       IF i - j > LastBoundary(last.input, i)
                       THEN ByteAt(EmittedAt(i)[n].v, j)
                               \in {0, to_ascii_lowercase(last.input[i - j])}
                       ELSE \/ ByteAt(EmittedAt(i)[n].v, j) = 0
                            \/ /\ ByteAt(EmittedAt(i)[n].v, j) = Blank[2]
                               /\ i - j = LastBoundary(last.input, i)
                               /\ \/ i - j = 0
                                  \/ is_ascii(last.input[i - j])

\* a scan of a text with a non-ASCII character and a comma, in which a
\* bigram, a trigram and a four-gram are emitted two characters after the
\* comma
C13_Witness ==
    /\ Scanned
    /\ \E k \in 1..Len(last.input) : ~is_ascii(last.input[k])
    /\ \E i \in 1..Len(last.input) :
          /\ LastBoundary(last.input, i) = i - 2
          /\ i - 2 >= 1
          /\ last.input[i - 2] = 44
          /\ Len(EmittedAt(i)) = 3

====
